---- MODULE Spec2Model ----
(***************************************************************************)
(* Invoice line-item extraction: the page-by-page PDF pipeline of          *)
(* gemini_client.py and streamlit_app_v1.py, the field normalizer          *)
(* (validate_line_items, process_json_data) and the temporary-file         *)
(* registry, and the CSV exporter of json_to_csv.py.                       *)
(*                                                                         *)
(* A text is a sequence of one-character strings, a JSON value is a        *)
(* record [t, s] (t the JSON type, s its text), a Python dict is a         *)
(* sequence of entries [k, v] in insertion order.  Python floats are       *)
(* IEEE-754 binary64 values m * 2^e with m an arbitrary-precision natural  *)
(* (little-endian limbs), rounded half-even to 53 bits after every         *)
(* operation.                                                              *)
(***************************************************************************)
EXTENDS Integers, Sequences, FiniteSets, TLC

---------------------------------------------------------------------------
(* Bounds of the model *)

MaxPages   == 2   \* pages of the document: 1..MaxPages
MaxLimit   == 3   \* page limits: 0..MaxLimit
MaxPerPage == 2   \* records in one page's "LineItems" array
MaxRateLen == 3   \* length of the generated "Rate" texts
MaxItems   == 2   \* records in a list handed to the normalizer
MaxRows    == 3   \* records in the JSON file given to json_to_csv.py

---------------------------------------------------------------------------
(* Arbitrary-precision naturals *)

Base     == 32768
LimbBits == 15
MantBits == 53
Guard    == 70

RECURSIVE Pow2(_)
Pow2(n) == IF n = 0 THEN 1 ELSE 2 * Pow2(n - 1)

RECURSIVE Pow10(_)
Pow10(n) == IF n = 0 THEN 1 ELSE 10 * Pow10(n - 1)

RECURSIVE BigNorm(_)
BigNorm(a) ==
    IF a # <<>> /\ a[Len(a)] = 0 THEN BigNorm(SubSeq(a, 1, Len(a) - 1)) ELSE a

RECURSIVE BigFromInt(_)
BigFromInt(n) == IF n = 0 THEN <<>> ELSE <<n % Base>> \o BigFromInt(n \div Base)

RECURSIVE BigToInt(_)
BigToInt(a) == IF a = <<>> THEN 0 ELSE a[1] + Base * BigToInt(Tail(a))

RECURSIVE BigMulSmallC(_, _, _)
BigMulSmallC(a, m, carry) ==
    IF a = <<>> THEN BigFromInt(carry)
    ELSE LET t == a[1] * m + carry
         IN  <<t % Base>> \o BigMulSmallC(Tail(a), m, t \div Base)

BigMulSmall(a, m) == BigNorm(BigMulSmallC(a, m, 0))

RECURSIVE BigAddC(_, _, _)
BigAddC(a, b, carry) ==
    IF a = <<>> /\ b = <<>> THEN BigFromInt(carry)
    ELSE LET x == IF a = <<>> THEN 0 ELSE a[1]
             y == IF b = <<>> THEN 0 ELSE b[1]
             t == x + y + carry
         IN  <<t % Base>> \o BigAddC(IF a = <<>> THEN a ELSE Tail(a),
                                     IF b = <<>> THEN b ELSE Tail(b), t \div Base)

BigAdd(a, b) == BigNorm(BigAddC(a, b, 0))

RECURSIVE BigMul(_, _)
BigMul(a, b) ==
    IF b = <<>> THEN <<>>
    ELSE BigAdd(BigMulSmall(a, b[1]),
                LET r == BigMul(a, Tail(b)) IN IF r = <<>> THEN r ELSE <<0>> \o r)

\* floor(a / m) and a mod m for 0 < m <= 10000
RECURSIVE BigDivSmallQ(_, _, _)
BigDivSmallQ(a, m, carry) ==
    IF a = <<>> THEN <<>>
    ELSE LET t == carry * Base + a[Len(a)]
         IN  BigDivSmallQ(SubSeq(a, 1, Len(a) - 1), m, t % m) \o <<t \div m>>

RECURSIVE BigModSmall(_, _, _)
BigModSmall(a, m, carry) ==
    IF a = <<>> THEN carry
    ELSE BigModSmall(SubSeq(a, 1, Len(a) - 1), m, (carry * Base + a[Len(a)]) % m)

RECURSIVE IntBitLen(_)
IntBitLen(n) == IF n = 0 THEN 0 ELSE 1 + IntBitLen(n \div 2)

BigBitLen(a) == IF a = <<>> THEN 0 ELSE LimbBits * (Len(a) - 1) + IntBitLen(a[Len(a)])

\* bit i of a (bit 0 is the least significant)
BigBit(a, i) ==
    LET k == i \div LimbBits + 1
    IN  IF k > Len(a) THEN 0 ELSE (a[k] \div Pow2(i % LimbBits)) % 2

\* some bit of a below bit i is set
BigLowNonZero(a, i) ==
    LET k == i \div LimbBits + 1
    IN  \/ \E j \in 1..(k - 1) : j <= Len(a) /\ a[j] # 0
        \/ k <= Len(a) /\ a[k] % Pow2(i % LimbBits) # 0

\* floor(a / 2^n)
BigShiftRight(a, n) ==
    LET drop == n \div LimbBits
        bits == n % LimbBits
        rest == IF drop >= Len(a) THEN <<>> ELSE SubSeq(a, drop + 1, Len(a))
        lo   == Pow2(bits)
        hi   == Pow2(LimbBits - bits)
    IN  BigNorm([i \in 1..Len(rest) |->
                   rest[i] \div lo
                   + (IF i < Len(rest) THEN (rest[i + 1] % lo) * hi ELSE 0)])

\* a * 2^n
BigShiftLeft(a, n) ==
    IF a = <<>> THEN a
    ELSE [i \in 1..(n \div LimbBits) |-> 0] \o BigMulSmall(a, Pow2(n % LimbBits))

---------------------------------------------------------------------------
(* Python float: binary64 *)

FZero == [m |-> <<>>, e |-> 0]

\* q * 2^e (plus a non-zero fraction below q when sticky) rounded half-even
\* to MantBits significant bits
RoundBits(q, sticky, e) ==
    LET n  == BigBitLen(q)
        sh == n - MantBits
    IN  IF sh <= 0 THEN [m |-> q, e |-> e]
        ELSE LET t    == BigShiftRight(q, sh)
                 half == BigBit(q, sh - 1) = 1
                 low  == sticky \/ BigLowNonZero(q, sh - 1)
                 up   == half /\ (low \/ BigBit(t, 0) = 1)
                 r    == IF up THEN BigAdd(t, <<1>>) ELSE t
             IN  IF BigBitLen(r) > MantBits
                 THEN [m |-> BigShiftRight(r, 1), e |-> e + sh + 1]
                 ELSE [m |-> r, e |-> e + sh]

\* the float nearest to the decimal d / 10^k
ToDouble(d, k) ==
    IF d = 0 THEN FZero
    ELSE LET num == BigShiftLeft(BigFromInt(d), Guard)
             den == Pow10(k)
         IN  RoundBits(BigNorm(BigDivSmallQ(num, den, 0)),
                       BigModSmall(num, den, 0) # 0, -Guard)

\* x * y
FMul(x, y) ==
    IF x.m = <<>> \/ y.m = <<>> THEN FZero
    ELSE RoundBits(BigMul(x.m, y.m), FALSE, x.e + y.e)

\* round(x, 2), as a number of hundredths: the exact binary value of x
\* rounded half-even to two decimals
Round2(x) ==
    IF x.m = <<>> THEN 0
    ELSE LET h    == BigMulSmall(x.m, 100)
             sh   == -x.e
             t    == BigShiftRight(h, sh)
             half == BigBit(h, sh - 1) = 1
             low  == BigLowNonZero(h, sh - 1)
             up   == half /\ (low \/ BigBit(t, 0) = 1)
         IN  BigToInt(t) + (IF up THEN 1 ELSE 0)

---------------------------------------------------------------------------
(* Texts *)

Digits == <<"0", "1", "2", "3", "4", "5", "6", "7", "8", "9">>

IsDigit(c) == \E i \in 1..10 : Digits[i] = c

DigitVal(c) == (CHOOSE i \in 1..10 : Digits[i] = c) - 1

RECURSIVE DecimalText(_)
DecimalText(n) ==
    IF n < 10 THEN <<Digits[n + 1]>>
    ELSE DecimalText(n \div 10) \o <<Digits[(n % 10) + 1]>>

\* str.replace(c, "")
Replace(s, c) == SelectSeq(s, LAMBDA x : x # c)

RECURSIVE DigitsValue(_)
DigitsValue(s) ==
    IF s = <<>> THEN 0
    ELSE 10 * DigitsValue(SubSeq(s, 1, Len(s) - 1)) + DigitVal(s[Len(s)])

\* float(s) for texts of digits, "." and other characters: digits with at
\* most one ".", at least one digit; anything else raises ValueError
\* (signs, exponents, blanks, "_", "inf" and "nan" are outside the texts
\* the model generates)
ParseFloat(s) ==
    LET dots == {i \in 1..Len(s) : s[i] = "."}
        ok   == /\ \A i \in 1..Len(s) : IsDigit(s[i]) \/ s[i] = "."
                /\ Cardinality(dots) <= 1
                /\ \E i \in 1..Len(s) : IsDigit(s[i])
    IN  IF ~ok THEN [ok |-> FALSE, x |-> FZero]
        ELSE LET k == IF dots = {} THEN 0 ELSE Len(s) - (CHOOSE i \in dots : TRUE)
             IN  [ok |-> TRUE, x |-> ToDouble(DigitsValue(Replace(s, ".")), k)]

\* f"{x:.2f}" for x >= 0
FormatF2(x) ==
    LET c == Round2(x)
    IN  DecimalText(c \div 100) \o <<".">>
        \o <<Digits[((c \div 10) % 10) + 1], Digits[(c % 10) + 1]>>

---------------------------------------------------------------------------
(* JSON values and Python dicts *)

Str(s) == [t |-> "str", s |-> s]

Num(s) == [t |-> "num", s |-> s]

Null == [t |-> "null", s |-> <<>>]

Empty == Str(<<>>)

\* bool(v): "", 0 and None are false
Truthy(v) ==
    CASE v.t = "str"  -> v.s # <<>>
      [] v.t = "num"  -> \E i \in 1..Len(v.s) : v.s[i] \notin {"0", "."}
      [] OTHER        -> FALSE

Keys(item) == {item[i].k : i \in 1..Len(item)}

KeySeq(item) == [i \in 1..Len(item) |-> item[i].k]

\* key in item
Has(item, key) == key \in Keys(item)

\* item[key]
Get(item, key) == item[CHOOSE i \in 1..Len(item) : item[i].k = key].v

\* item[key] = val: an existing key keeps its position, a new key goes last
SetItem(item, key, val) ==
    IF Has(item, key)
    THEN [i \in 1..Len(item) |-> IF item[i].k = key THEN [k |-> key, v |-> val]
                                 ELSE item[i]]
    ELSE Append(item, [k |-> key, v |-> val])

---------------------------------------------------------------------------
(* Field normalizer *)

required_fields ==
    << "Description of Goods", "HSN/SAC", "Batch No", "Mfg Date", "Expiry Date",
       "MRP", "QTY", "UOM", "Rate", "Discount%", "Discount Value",
       "Taxable Value", "IGST Rate", "IGST Amount", "Total" >>

\* if field not in item: item[field] = ""
FillFieldAlways(item, field) == SetItem(item, field, Empty)

FillField(item, field) ==
    IF ~Has(item, field) THEN SetItem(item, field, Empty) ELSE item

\* for field in required_fields: ...   (fields i..15)
RECURSIVE FillFrom(_, _)
FillFrom(item, i) ==
    IF i > Len(required_fields) THEN item
    ELSE FillFrom(FillField(item, required_fields[i]), i + 1)

validate_line_items(line_items) ==
    [i \in 1..Len(line_items) |-> FillFrom(line_items[i], 1)]

F106 == ToDouble(106, 2)

F111 == ToDouble(111, 2)

\* float(item["Rate"].replace(",", "")) if item["Rate"] else 0
\* exc is the exception the expression raises, "none" if it has a value x
RateOf(item) ==
    IF ~Has(item, "Rate") THEN [exc |-> "KeyError", x |-> FZero]
    ELSE LET v == Get(item, "Rate")
         IN  IF ~Truthy(v) THEN [exc |-> "none", x |-> FZero]
             ELSE IF v.t # "str" THEN [exc |-> "AttributeError", x |-> FZero]
             ELSE LET f == ParseFloat(Replace(v.s, ","))
                  IN  IF f.ok THEN [exc |-> "none", x |-> f.x]
                      ELSE [exc |-> "ValueError", x |-> FZero]

\* float(item["Rate"].replace(",", ""))          (streamlit_app.py)
RateOfApp(item) ==
    IF ~Has(item, "Rate") THEN [exc |-> "KeyError", x |-> FZero]
    ELSE LET v == Get(item, "Rate")
         IN  IF v.t # "str" THEN [exc |-> "AttributeError", x |-> FZero]
             ELSE LET f == ParseFloat(Replace(v.s, ","))
                  IN  IF f.ok THEN [exc |-> "none", x |-> f.x]
                      ELSE [exc |-> "ValueError", x |-> FZero]

\* p_rate = round(rate * 1.06, 2): the float nearest to the rounded decimal
PRateOf(rate) == ToDouble(Round2(FMul(rate, F106)), 2)

\* b_rate = round(p_rate * 1.11, 2)
BRateOf(rate, p) == ToDouble(Round2(FMul(p, F111)), 2)

\* rate, p_rate, b_rate of the try block, and the two texts
\* f"{p_rate:.2f}", f"{b_rate:.2f}" the loop below inserts
Rates(r) ==
    IF r.exc # "none" THEN [exc |-> r.exc, p_text |-> <<>>, b_text |-> <<>>]
    ELSE LET p == PRateOf(r.x)
             b == BRateOf(r.x, p)
         IN  [exc |-> "none", p_text |-> FormatF2(p), b_text |-> FormatF2(b)]

\* new_item = {}; for key, value in item.items(): ...   (entries i..Len(item))
RECURSIVE WithDerived(_, _, _, _, _)
WithDerived(item, i, new_item, p_text, b_text) ==
    IF i > Len(item) THEN new_item
    ELSE LET n1 == SetItem(new_item, item[i].k, item[i].v)
             n2 == IF item[i].k = "Rate" THEN SetItem(n1, "P Rate", Str(p_text)) ELSE n1
             n3 == IF item[i].k = "Total" THEN SetItem(n2, "B Rate", Str(b_text)) ELSE n2
         IN  WithDerived(item, i + 1, n3, p_text, b_text)

\* except (ValueError, TypeError): item["P Rate"] = ""; item["B Rate"] = ""
EmptyDerivedPOnly(item) == SetItem(item, "P Rate", Empty)

EmptyDerived(item) == SetItem(SetItem(item, "P Rate", Empty), "B Rate", Empty)

\* the exceptions the handler of streamlit_app_v1.process_json_data catches
Caught == {"ValueError", "TypeError"}

\* the loop of streamlit_app_v1.process_json_data from item i on: the list
\* as the loop leaves it and the exception that escaped ("none": returned)
RECURSIVE ProcessFrom(_, _)
ProcessFrom(items, i) ==
    IF i > Len(items) THEN [items |-> items, exc |-> "none"]
    ELSE LET r == Rates(RateOf(items[i]))
         IN  IF r.exc = "none"
             THEN ProcessFrom([items EXCEPT ![i] =
                                 WithDerived(items[i], 1, <<>>, r.p_text, r.b_text)],
                              i + 1)
             ELSE IF r.exc \in Caught
             THEN ProcessFrom([items EXCEPT ![i] = EmptyDerived(items[i])], i + 1)
             ELSE [items |-> items, exc |-> r.exc]

process_json_data(items) == ProcessFrom(items, 1)

\* the loop of streamlit_app.process_json_data: no handler
RECURSIVE ProcessFromApp(_, _)
ProcessFromApp(items, i) ==
    IF i > Len(items) THEN [items |-> items, exc |-> "none"]
    ELSE LET r == Rates(RateOfApp(items[i]))
         IN  IF r.exc = "none"
             THEN ProcessFromApp([items EXCEPT ![i] =
                                    WithDerived(items[i], 1, <<>>, r.p_text, r.b_text)],
                                 i + 1)
             ELSE [items |-> items, exc |-> r.exc]

process_json_data_app(items) == ProcessFromApp(items, 1)

---------------------------------------------------------------------------
(* State *)

VARIABLES
    entry,            \* "cli": gemini_client.py, "ui": streamlit_app_v1.py
    api_key,          \* GEMINI_API_KEY is set
    total_pages,      \* len(pdf_document)
    page_limit,       \* the pages argument / the "Page limit" input
    pc,               \* position of the run
    pages_to_process, \* bound of the page loop
    page_num,         \* loop variable (page_idx in the ui)
    all_line_items,   \* records aggregated so far
    temp_files,       \* the registry of temporary paths
    fs,               \* temporary paths that exist on disk
    response,         \* the local "response": "unbound", "readable", "unreadable"
    result,           \* what process_pdf_to_json returned
    exported,         \* the records handed to the exporter
    page_log,         \* history: what happened on each page visited
    created,          \* history: temporary paths created in this run
    unlink_failed,    \* history: paths whose os.unlink raised
    abort_at,         \* history: where the exception that ended the loop rose
    raw_items,        \* normalizer: the list as given
    line_items,       \* normalizer: the list, modified in place
    passes,           \* normalizer: passes applied so far
    exc,              \* normalizer: exception that escaped, "none" if none
    csv_pc,           \* json_to_csv.py: position of the script
    input_json,       \* json_to_csv.py: the file linefields.json
    data,             \* json_to_csv.py: what read_json returned
    csv_disk,         \* json_to_csv.py: the output file, None if it does not exist
    csv_before,       \* history: the output file when the script started
    csv_exc,          \* json_to_csv.py: exception that escaped, "none" if none
    printed           \* json_to_csv.py: messages printed, in order

pipe_vars == << entry, api_key, total_pages, page_limit, pc, pages_to_process,
                page_num, all_line_items, temp_files, fs, response, result,
                exported, page_log, created, unlink_failed, abort_at >>

norm_vars == << raw_items, line_items, passes, exc >>

csv_vars == << csv_pc, input_json, data, csv_disk, csv_before, csv_exc, printed >>

vars == << pipe_vars, norm_vars, csv_vars >>

---------------------------------------------------------------------------
(* Inputs *)

AllSeqs(S, n) == UNION {[1..m -> S] : m \in 0..n}

Range(f) == {f[i] : i \in DOMAIN f}

\* an optional value: None, or a value
None == [some |-> FALSE, v |-> <<>>]

Some(x) == [some |-> TRUE, v |-> x]

\* linefields.json: not there, not JSON, or an object with or without "LineItems"
NoFile == [file |-> "absent", has |-> FALSE, items |-> <<>>]

BadFile == [file |-> "bad", has |-> FALSE, items |-> <<>>]

JsonFile(has, items) == [file |-> "ok", has |-> has, items |-> items]

Field(k, v) == [k |-> k, v |-> v]

Nine == Str(<<"9">>)

\* records a page of the service's answer is made of
PageRecords ==
    { << Field("Rate", Str(<<"2">>)), Field("Total", Nine) >>,
      << Field("Rate", Num(<<"5">>)) >> }

PageArrays == AllSeqs(PageRecords, MaxPerPage)

\* what the extraction of one page can meet
Responses ==
    {[kind |-> k, items |-> <<>>] :
        k \in {"image_error", "call_raises", "text_unreadable", "bad_json",
               "not_container", "no_key", "not_list"}}
    \cup {[kind |-> "ok", items |-> a] : a \in PageArrays}

PdfPath == 0

\* the name NamedTemporaryFile gives the image of page n: a fresh one
JpgPath(n) == n + 1

---------------------------------------------------------------------------
(* process_pdf_to_json *)

\* range(pages) in gemini_client; in streamlit_app_v1
\*   page_limit_to_use = page_limit if page_limit > 0 else None
\*   if page_limit and page_limit < total_pages: page_limit else total_pages
PagesToProcess(e, limit, total) ==
    IF e = "cli" THEN limit
    ELSE LET page_limit_to_use == IF limit > 0 THEN Some(limit) ELSE None
         IN  IF page_limit_to_use.some /\ page_limit_to_use.v < total
             THEN page_limit_to_use.v ELSE total

\* all_line_items.extend(page_data["LineItems"])
ExtendFront(all, items) == items \o all

Extend(all, items) == all \o items

\* temp_files.append(temp_path)
RegisterNothing(registry, path) == registry

Register(registry, path) == Append(registry, path)

\* the except clause of the outer try: return None
Abort(stage) ==
    /\ result' = None
    /\ abort_at' = stage
    /\ pc' = "finally"

LogPage(kind, items) ==
    page_log' = Append(page_log, [page |-> page_num, kind |-> kind, items |-> items])

\* module initialisation: the key is read and the model is configured
Start ==
    /\ pc = "start"
    /\ pc' = IF entry = "cli"
             THEN (IF api_key THEN "open" ELSE "exited")
             ELSE "upload"
    /\ UNCHANGED << entry, api_key, total_pages, page_limit, pages_to_process,
                    page_num, all_line_items, temp_files, fs, response, result,
                    exported, page_log, created, unlink_failed, abort_at, norm_vars, csv_vars >>

\* with tempfile.NamedTemporaryFile(delete=False, suffix='.pdf') as temp_pdf: write
SaveUpload ==
    /\ pc = "upload"
    /\ fs' = fs \cup {PdfPath}
    /\ created' = created \cup {PdfPath}
    /\ \E ok \in BOOLEAN : pc' = IF ok THEN "open" ELSE "crashed"
    /\ UNCHANGED << entry, api_key, total_pages, page_limit, pages_to_process,
                    page_num, all_line_items, temp_files, response, result,
                    exported, page_log, unlink_failed, abort_at, norm_vars, csv_vars >>

\* pdf_document = fitz.open(...); the bound of the page loop
OpenPdf ==
    /\ pc = "open"
    /\ \E ok \in BOOLEAN :
         IF ok
         THEN /\ pages_to_process' = PagesToProcess(entry, page_limit, total_pages)
              /\ pc' = "loop"
              /\ UNCHANGED << result, abort_at >>
         ELSE /\ Abort("open")
              /\ UNCHANGED pages_to_process
    /\ UNCHANGED << entry, api_key, total_pages, page_limit, page_num,
                    all_line_items, temp_files, fs, response, exported,
                    page_log, created, unlink_failed, norm_vars, csv_vars >>

\* page = pdf_document.load_page(page_num); pix = page.get_pixmap(alpha=False)
Render ==
    /\ pc = "loop"
    /\ page_num < pages_to_process
    /\ IF page_num >= total_pages
       THEN /\ Abort("load_page")
            /\ LogPage("no_such_page", <<>>)
       ELSE \E ok \in BOOLEAN :
              IF ok
              THEN /\ pc' = "mktemp"
                   /\ UNCHANGED << result, abort_at, page_log >>
              ELSE /\ Abort("load_page")
                   /\ LogPage("load_error", <<>>)
    /\ UNCHANGED << entry, api_key, total_pages, page_limit, pages_to_process,
                    page_num, all_line_items, temp_files, fs, response,
                    exported, created, unlink_failed, norm_vars, csv_vars >>

\* temp_file = tempfile.NamedTemporaryFile(suffix='.jpg', delete=False)
MakeTemp ==
    /\ pc = "mktemp"
    /\ \E ok \in BOOLEAN :
         IF ok
         THEN /\ fs' = fs \cup {JpgPath(page_num)}
              /\ created' = created \cup {JpgPath(page_num)}
              /\ pc' = "register"
              /\ UNCHANGED << result, abort_at, page_log >>
         ELSE /\ Abort("mktemp")
              /\ LogPage("mktemp_error", <<>>)
              /\ UNCHANGED << fs, created >>
    /\ UNCHANGED << entry, api_key, total_pages, page_limit, pages_to_process,
                    page_num, all_line_items, temp_files, response, exported,
                    unlink_failed, norm_vars, csv_vars >>

\* temp_files.append(temp_path); temp_file.close()
RegisterTemp ==
    /\ pc = "register"
    /\ temp_files' = Register(temp_files, JpgPath(page_num))
    /\ pc' = "save"
    /\ UNCHANGED << entry, api_key, total_pages, page_limit, pages_to_process,
                    page_num, all_line_items, fs, response, result, exported,
                    page_log, created, unlink_failed, abort_at, norm_vars, csv_vars >>

\* pix.save(temp_path)
SavePixmap ==
    /\ pc = "save"
    /\ \E ok \in BOOLEAN :
         IF ok
         THEN /\ pc' = "extract"
              /\ UNCHANGED << result, abort_at, page_log >>
         ELSE /\ Abort("save")
              /\ LogPage("save_error", <<>>)
    /\ UNCHANGED << entry, api_key, total_pages, page_limit, pages_to_process,
                    page_num, all_line_items, temp_files, fs, response,
                    exported, created, unlink_failed, norm_vars, csv_vars >>

\* the kinds of answer on which the inner try block raises
Raising == {"image_error", "call_raises", "text_unreadable", "bad_json", "not_container"}

\* the local "response" after the try block met r
ResponseAfter(old, r) ==
    CASE r.kind \in {"image_error", "call_raises"} -> old
      [] r.kind = "text_unreadable"                -> "unreadable"
      [] OTHER                                     -> "readable"

\* the inner try block and its handler, one page:
\*   Image.open, model.generate_content, json.loads(response.text), extend;
\*   except Exception: the message, and response.text if response is bound
Extract ==
    /\ pc = "extract"
    /\ IF entry = "ui" /\ ~api_key
       THEN \E r \in {[kind |-> k, items |-> <<>>] : k \in {"image_error", "no_model"}} :
              /\ LogPage(r.kind, <<>>)
              /\ pc' = IF r.kind = "no_model" THEN "break" ELSE "loop"
              /\ page_num' = IF r.kind = "no_model" THEN page_num ELSE page_num + 1
              /\ UNCHANGED << response, all_line_items, result, abort_at >>
       ELSE \E r \in Responses :
              /\ response' = ResponseAfter(response, r)
              /\ LogPage(r.kind, r.items)
              /\ IF r.kind \in Raising /\ response' = "unreadable"
                 THEN /\ Abort("extract")
                      /\ UNCHANGED << all_line_items, page_num >>
                 ELSE /\ all_line_items' = IF r.kind = "ok"
                                           THEN Extend(all_line_items, r.items)
                                           ELSE all_line_items
                      /\ page_num' = page_num + 1
                      /\ pc' = "loop"
                      /\ UNCHANGED << result, abort_at >>
    /\ UNCHANGED << entry, api_key, total_pages, page_limit, pages_to_process,
                    temp_files, fs, exported, created, unlink_failed, norm_vars, csv_vars >>

\* combined_data = {"LineItems": all_line_items}; return combined_data
LoopEnd ==
    /\ \/ pc = "loop" /\ page_num >= pages_to_process
       \/ pc = "break"
    /\ result' = Some(all_line_items)
    /\ pc' = "finally"
    /\ UNCHANGED << entry, api_key, total_pages, page_limit, pages_to_process,
                    page_num, all_line_items, temp_files, fs, response, exported,
                    page_log, created, unlink_failed, abort_at, norm_vars, csv_vars >>

\* finally: pdf_document.close(); in the ui also
\*   if os.path.exists(temp_pdf_path): os.unlink(temp_pdf_path)
Finally ==
    /\ pc = "finally"
    /\ IF entry = "ui" /\ PdfPath \in fs
       THEN \E ok \in BOOLEAN :
              IF ok
              THEN /\ fs' = fs \ {PdfPath}
                   /\ pc' = "main"
                   /\ UNCHANGED unlink_failed
              ELSE /\ unlink_failed' = unlink_failed \cup {PdfPath}
                   /\ pc' = "crashed"
                   /\ UNCHANGED fs
       ELSE /\ pc' = "main"
            /\ UNCHANGED << fs, unlink_failed >>
    /\ UNCHANGED << entry, api_key, total_pages, page_limit, pages_to_process,
                    page_num, all_line_items, temp_files, response, result,
                    exported, page_log, created, abort_at, norm_vars, csv_vars >>

\* the caller, after process_pdf_to_json returned:
\*   cli: if result and "LineItems" in result: validate, json.dump;
\*        then cleanup_temp_files() is called
\*   ui:  if extracted_data and ... and extracted_data["LineItems"]:
\*          validate, process_json_data, json_to_csv;
\*        main() returns and nothing is called after it: the registered
\*        files wait for the atexit hook
MainPost ==
    /\ pc = "main"
    /\ IF entry = "cli"
       THEN /\ exported' = IF result.some THEN Some(validate_line_items(result.v))
                           ELSE exported
            /\ pc' = "cleanup"
       ELSE IF result.some /\ result.v # <<>>
            THEN LET r == process_json_data(validate_line_items(result.v))
                 IN  IF r.exc = "none"
                     THEN exported' = Some(r.items) /\ pc' = "atexit"
                     ELSE UNCHANGED exported /\ pc' = "crashed"
            ELSE UNCHANGED exported /\ pc' = "atexit"
    /\ UNCHANGED << entry, api_key, total_pages, page_limit, pages_to_process,
                    page_num, all_line_items, temp_files, fs, response, result,
                    page_log, created, unlink_failed, abort_at, norm_vars, csv_vars >>

\* cleanup_temp_files: every registered path that exists is unlinked; the
\* paths in failing are those whose os.unlink raises (warning, file stays)
cleanup_temp_files(registry, files, failing) == files \ (Range(registry) \ failing)

Cleanup ==
    \E failing \in SUBSET (Range(temp_files) \cap fs) :
        /\ fs' = cleanup_temp_files(temp_files, fs, failing)
        /\ unlink_failed' = unlink_failed \cup failing

\* cleanup_temp_files() as the last statement of the script
EndCleanup ==
    /\ pc = "cleanup"
    /\ Cleanup
    /\ pc' = "atexit"
    /\ UNCHANGED << entry, api_key, total_pages, page_limit, pages_to_process,
                    page_num, all_line_items, temp_files, response, result,
                    exported, page_log, created, abort_at, norm_vars, csv_vars >>

\* atexit.register(cleanup_temp_files): the hook runs when the process ends
AtExit ==
    /\ pc \in {"atexit", "crashed"}
    /\ Cleanup
    /\ pc' = "exited"
    /\ UNCHANGED << entry, api_key, total_pages, page_limit, pages_to_process,
                    page_num, all_line_items, temp_files, response, result,
                    exported, page_log, created, abort_at, norm_vars, csv_vars >>

NormIdle ==
    /\ raw_items = <<>>
    /\ line_items = <<>>
    /\ passes = <<>>
    /\ exc = "none"

\* json_to_csv.py is not running
CsvIdle ==
    /\ csv_pc = "idle"
    /\ input_json = NoFile
    /\ data = None
    /\ csv_disk = None
    /\ csv_before = None
    /\ csv_exc = "none"
    /\ printed = <<>>

PipeIdle ==
    /\ pc = "start"
    /\ pages_to_process = 0
    /\ page_num = 0
    /\ all_line_items = <<>>
    /\ temp_files = <<>>
    /\ fs = {}
    /\ response = "unbound"
    /\ result = None
    /\ exported = None
    /\ page_log = <<>>
    /\ created = {}
    /\ unlink_failed = {}
    /\ abort_at = "none"

Init ==
    /\ entry \in {"cli", "ui"}
    /\ api_key \in BOOLEAN
    /\ total_pages \in 1..MaxPages
    /\ page_limit \in 0..MaxLimit
    /\ PipeIdle
    /\ NormIdle
    /\ CsvIdle

Next ==
    \/ Start
    \/ SaveUpload
    \/ OpenPdf
    \/ Render
    \/ MakeTemp
    \/ RegisterTemp
    \/ SavePixmap
    \/ Extract
    \/ LoopEnd
    \/ Finally
    \/ MainPost
    \/ EndCleanup
    \/ AtExit

Spec == Init /\ [][Next]_vars

---------------------------------------------------------------------------
(* The field normalizer on its own: lists of records as a model answer or an
   uploaded JSON file can hold them *)

RateChars == {"2", "5", "7", ".", ",", "x"}

Text450 == <<"4", "5", "0", ".", "0", "0">>

RateSamples == { Text450, <<"0">>, <<"1", ",", "2", "3", "4", ".", "5", "0">> }

\* values of "Rate": texts, JSON numbers, null
RateValues ==
    {Str(s) : s \in AllSeqs(RateChars, MaxRateLen) \cup RateSamples}
    \cup {Num(<<"0">>), Num(<<"5">>), Null}

FewRates == {Str(<<"2">>), Empty, Str(<<"x">>), Num(<<"5">>)}

Old == Str(<<"o">>)

\* every required field, in the order of the list
FullRecord(rate) ==
    [i \in 1..Len(required_fields) |->
        Field(required_fields[i], IF required_fields[i] = "Rate" THEN rate ELSE Nine)]

\* records of different shapes: fields missing, extra, reordered, already derived
ShapeRecords ==
    { <<>>, << Field("QTY", Nine) >> }
    \cup UNION { { << Field("Rate", r) >>,
                   << Field("Total", Nine), Field("Rate", r) >>,
                   << Field("Extra", Nine), Field("Rate", r), Field("Total", Nine) >>,
                   << Field("Rate", r), Field("P Rate", Old), Field("Total", Nine),
                      Field("B Rate", Old) >>,
                   FullRecord(r) } : r \in FewRates }

\* records with every value of "Rate", and the records listed next to them
RateRecords == { << Field("Rate", r), Field("Total", Nine) >> : r \in RateValues }

Companions ==
    { << Field("Rate", Str(<<"2">>)), Field("Total", Nine) >>,
      << Field("Rate", Str(<<"x">>)), Field("Total", Nine) >>,
      << Field("Rate", Num(<<"5">>)), Field("Total", Nine) >> }

NormInputs ==
    AllSeqs(ShapeRecords, MaxItems)
    \cup UNION { { <<a>> } \cup UNION { { <<a, b>>, <<b, a>> } : b \in Companions }
                 : a \in RateRecords }

\* result["LineItems"] = validate_line_items(result["LineItems"])
Validate ==
    /\ passes = <<>>
    /\ line_items' = validate_line_items(line_items)
    /\ passes' = Append(passes, "validate")
    /\ UNCHANGED << raw_items, exc, pipe_vars, csv_vars >>

Returned(r, name) ==
    /\ line_items' = r.items
    /\ exc' = r.exc
    /\ passes' = Append(passes, name)
    /\ UNCHANGED << raw_items, pipe_vars, csv_vars >>

\* streamlit_app_v1.process_json_data
Process ==
    /\ exc = "none"
    /\ passes \in {<<>>, <<"validate">>}
    /\ Returned(process_json_data(line_items), "v1")

\* streamlit_app.process_json_data
ProcessApp ==
    /\ exc = "none"
    /\ passes \in {<<>>, <<"validate">>}
    /\ Returned(process_json_data_app(line_items), "app")

NormInit ==
    /\ raw_items \in NormInputs
    /\ line_items = raw_items
    /\ passes = <<>>
    /\ exc = "none"
    /\ entry = "ui"
    /\ api_key = TRUE
    /\ total_pages = 1
    /\ page_limit = 0
    /\ PipeIdle
    /\ CsvIdle

NormNext == Validate \/ Process \/ ProcessApp

NormSpec == NormInit /\ [][NormNext]_vars

---------------------------------------------------------------------------
(* json_to_csv.py: the script that exports the records of linefields.json *)

\* a cell as csv.writer writes a value: None is written as the empty text
CellText(v) == IF v.t = "null" THEN <<>> ELSE v.s

\* DictWriter._dict_to_list, the cells: a field the record lacks is written
\* as restval, ""
RowOf(fieldnames, rec) ==
    [i \in 1..Len(fieldnames) |->
        IF Has(rec, fieldnames[i]) THEN CellText(Get(rec, fieldnames[i])) ELSE <<>>]

\* DictWriter._dict_to_list, extrasaction = "raise": the keys of the record
\* that are not field names
WrongFields(fieldnames, rec) == Keys(rec) \ Range(fieldnames)

\* writer.writerows(line_items): the rows reach the file one by one, until a
\* record with a wrong field raises ValueError
RECURSIVE WriteRows(_, _, _)
WriteRows(rows, fieldnames, items) ==
    IF items = <<>> THEN [rows |-> rows, exc |-> "none"]
    ELSE IF WrongFields(fieldnames, Head(items)) # {}
         THEN [rows |-> rows, exc |-> "ValueError"]
         ELSE WriteRows(Append(rows, RowOf(fieldnames, Head(items))),
                        fieldnames, Tail(items))

\* convert_json_to_csv(json_data, csv_file): the output file afterwards, the
\* exception raised and what was printed.  open(csv_file, "w") creates or
\* truncates the file; the header row is the first record's keys.
convert_json_to_csv(json_data, disk) ==
    LET items == IF json_data.has THEN json_data.items ELSE <<>>
    IN  IF items = <<>>
        THEN [disk |-> disk, exc |-> "none", out |-> <<"no_items">>]
        ELSE LET header  == KeySeq(items[1])
                 written == WriteRows(<< header >>, header, items)
             IN  [disk |-> Some(written.rows), exc |-> written.exc, out |-> <<>>]

\* data = read_json(input_json_file), and the two handlers of __main__
ReadJson ==
    /\ csv_pc = "read"
    /\ IF input_json.file = "ok"
       THEN /\ data' = Some(input_json)
            /\ csv_pc' = "convert"
            /\ UNCHANGED printed
       ELSE /\ printed' = Append(printed, IF input_json.file = "absent"
                                          THEN "not_found" ELSE "parse_error")
            /\ csv_pc' = "done"
            /\ UNCHANGED data
    /\ UNCHANGED << input_json, csv_disk, csv_before, csv_exc, pipe_vars, norm_vars >>

\* convert_json_to_csv(data, output_csv_file); a ValueError is caught by
\* neither handler of __main__
Convert ==
    /\ csv_pc = "convert"
    /\ LET r == convert_json_to_csv(data.v, csv_disk)
       IN  /\ csv_disk' = r.disk
           /\ csv_exc' = r.exc
           /\ printed' = printed \o r.out
           /\ csv_pc' = IF r.exc = "none" THEN "report" ELSE "done"
    /\ UNCHANGED << input_json, data, csv_before, pipe_vars, norm_vars >>

\* print(f"JSON data successfully written to {output_csv_file}")
Report ==
    /\ csv_pc = "report"
    /\ printed' = Append(printed, "success")
    /\ csv_pc' = "done"
    /\ UNCHANGED << input_json, data, csv_disk, csv_before, csv_exc,
                    pipe_vars, norm_vars >>

\* records of linefields.json: the same fields, reordered, one missing, one
\* more, none, values that are not texts
CsvRecords ==
    { << Field("Rate", Str(<<"2">>)), Field("Total", Nine) >>,
      << Field("Total", Nine), Field("Rate", Str(<<"5">>)) >>,
      << Field("Rate", Str(<<"7">>)) >>,
      << Field("Rate", Str(<<"2">>)), Field("Total", Nine), Field("Extra", Nine) >>,
      <<>>,
      << Field("Rate", Num(<<"5">>)), Field("Total", Null) >> }

CsvInputs ==
    {NoFile, BadFile, JsonFile(FALSE, <<>>)}
    \cup {JsonFile(TRUE, a) : a \in AllSeqs(CsvRecords, MaxRows)}

\* an output file left by an earlier run
OldCsv == << << "old" >> >>

CsvInit ==
    /\ csv_pc = "read"
    /\ input_json \in CsvInputs
    /\ data = None
    /\ csv_disk \in {None, Some(OldCsv)}
    /\ csv_before = csv_disk
    /\ csv_exc = "none"
    /\ printed = <<>>
    /\ entry = "cli"
    /\ api_key = TRUE
    /\ total_pages = 1
    /\ page_limit = 0
    /\ PipeIdle
    /\ NormIdle

CsvNext == ReadJson \/ Convert \/ Report

CsvSpec == CsvInit /\ [][CsvNext]_vars

---------------------------------------------------------------------------
(* Properties of the page pipeline (Spec) *)

\* process_pdf_to_json has returned
Returned_pdf == pc \in {"main", "cleanup", "atexit"}

\* the concatenation, in the order of the log, of the arrays of the pages
\* whose answer was an object with a "LineItems" list
RECURSIVE Flatten(_)
Flatten(log) ==
    IF log = <<>> THEN <<>>
    ELSE Flatten(SubSeq(log, 1, Len(log) - 1))
         \o (IF log[Len(log)].kind = "ok" THEN log[Len(log)].items ELSE <<>>)

IsPrefix(a, b) == Len(a) <= Len(b) /\ SubSeq(b, 1, Len(a)) = a

ServiceFailed == {"call_raises", "text_unreadable", "bad_json", "not_container"}

RenderFailed == {"load_error", "save_error"}

\* C1: a page whose service call raises, or whose response cannot be read or
\* parsed as JSON, adds no record; its exception does not leave the per-page
\* handler; the pages after it are still processed; and process_pdf_to_json
\* returns the {"LineItems": [...]} envelope with the records of the other pages.
C1_ServiceFailureStaysOnItsPage ==
    (\E i \in 1..Len(page_log) : page_log[i].kind \in ServiceFailed)
    => /\ abort_at # "extract"
       /\ (Returned_pdf /\ abort_at = "none")
          => /\ result.some
             /\ result.v = Flatten(page_log)
             /\ Len(page_log) = pages_to_process

\* C2: when rendering page i fails (load_page, get_pixmap or saving the
\* pixmap raises) the failure is caught for that page only: the loop goes on
\* with page i+1 and the records of the pages before i are in the result.
C2_RenderFailureStaysOnItsPage ==
    \A i \in 1..Len(page_log) :
        page_log[i].kind \in RenderFailed
        => /\ abort_at \notin {"load_page", "save"}
           /\ Returned_pdf
              => /\ result.some
                 /\ IsPrefix(Flatten(SubSeq(page_log, 1, i - 1)), result.v)

\* the number of pages the claim expects: min(N, L), N without a limit
\* (no limit: 0 in the ui)
WantedPages ==
    IF entry = "ui" /\ page_limit = 0 THEN total_pages
    ELSE IF page_limit < total_pages THEN page_limit ELSE total_pages

\* no step of the run failed for a reason outside the program
FaultFree ==
    /\ api_key
    /\ abort_at \notin {"open", "mktemp", "save", "extract"}
    /\ \A i \in 1..Len(page_log) : page_log[i].kind \notin {"load_error"}

\* C3: for a document of N pages and a limit L the page loop renders the
\* pages 0 .. min(N, L)-1, each once and no other (N pages without a limit),
\* in both entry points, also when L > N.
C3_RendersMinPages ==
    (Returned_pdf /\ FaultFree)
    => [i \in 1..Len(page_log) |-> page_log[i].page] = [i \in 1..WantedPages |-> i - 1]

\* C4: the aggregated records are, at every point of the loop and in the
\* returned envelope, the concatenation of the per-page "LineItems" arrays
\* in increasing page order with the order within a page kept: nothing is
\* dropped, merged, deduplicated or moved.
C4_AggregationInPageOrder ==
    /\ all_line_items = Flatten(page_log)
    /\ \A i \in 1..Len(page_log) : page_log[i].page = i - 1
    /\ result.some => result.v = Flatten(page_log)

\* C4 witness: an envelope was returned that holds records of two pages
\* whose arrays differ
C4_Witness ==
    /\ result.some
    /\ \E i, j \in 1..Len(page_log) :
         /\ i < j
         /\ page_log[i].kind = "ok" /\ page_log[j].kind = "ok"
         /\ page_log[i].items # <<>> /\ page_log[j].items # <<>>
         /\ page_log[i].items # page_log[j].items

InProcessing == pc \in {"loop", "mktemp", "register", "save", "extract", "break"}

\* C11: when the API key is absent the run stops before any processing: no
\* temporary file is created, the document is not opened, no page is
\* rasterized and no service call is made, in both entry points.
C11_NoKeyNoProcessing ==
    ~api_key => /\ created = {}
                /\ ~InProcessing
                /\ page_log = <<>>

\* the per-page temporary images that exist on disk
ImagesOnDisk == fs \ {PdfPath}

\* a step that is a call of cleanup_temp_files: the call at the end of the
\* script, or the atexit hook
CleanupCall == (pc = "cleanup" /\ pc' = "atexit") \/ (pc \in {"atexit", "crashed"} /\ pc' = "exited")

\* the atexit hook running after the call at the end of the script
SecondCleanupCall == entry = "cli" /\ pc = "atexit" /\ pc' = "exited"

---------------------------------------------------------------------------
(* Properties of the field normalizer (NormSpec) *)

Required == Range(required_fields)

LastPass == IF passes = <<>> THEN "none" ELSE passes[Len(passes)]

\* a process_json_data has run on the list (and returned or raised)
Processed == LastPass \in {"v1", "app"}

\* streamlit_app_v1.process_json_data, the one with the handler, has run
ProcessedV1 == LastPass = "v1"

\* the record's "Rate" is a text float() accepts once the commas are removed
RateParses(item) ==
    /\ Has(item, "Rate")
    /\ Get(item, "Rate").t = "str"
    /\ ParseFloat(Replace(Get(item, "Rate").s, ",")).ok

RateText(item) == Get(item, "Rate").s

Is(item, key, text) == Has(item, key) /\ Get(item, key) = Str(text)

\* C5: validate_line_items returns records that hold each of the 15 required
\* fields: a missing one is added with value "", a field already there
\* (required or not) keeps its value, no field is removed.
C5_SchemaCompletion ==
    passes = <<"validate">>
    => /\ Len(line_items) = Len(raw_items)
       /\ Cardinality(Required) = 15
       /\ \A i \in 1..Len(line_items) :
            LET r == raw_items[i]
                v == line_items[i]
            IN  /\ Required \subseteq Keys(v)
                /\ Len(v) = Cardinality(Keys(v))
                /\ \A k \in Keys(r) : Has(v, k) /\ Get(v, k) = Get(r, k)
                /\ \A k \in Keys(v) \ Keys(r) : k \in Required /\ Get(v, k) = Empty

\* C5 witness: a raw record with only "Rate" and "Total" was completed to
\* the 15 required fields, the other 13 being ""
C5_Witness ==
    /\ passes = <<"validate">>
    /\ \E i \in 1..Len(line_items) :
         /\ raw_items[i] = << Field("Rate", Str(Text450)), Field("Total", Nine) >>
         /\ Len(line_items[i]) = 15
         /\ Cardinality({k \in Keys(line_items[i]) : Get(line_items[i], k) = Empty}) = 13

\* validate_line_items, then streamlit_app_v1.process_json_data, returned
Normalized == passes = <<"validate", "v1">> /\ exc = "none"

C7_DerivedRates ==
    (Processed /\ exc = "none")
    => \A i \in 1..Len(line_items) :
         LET item == line_items[i]
         IN  RateParses(item)
             => LET x == ParseFloat(Replace(RateText(item), ",")).x
                    p == PRateOf(x)
                IN  /\ Is(item, "P Rate", FormatF2(p))
                    /\ Is(item, "B Rate", FormatF2(BRateOf(x, p)))
                    /\ RateText(item) = Text450
                       => /\ Is(item, "P Rate", <<"4", "7", "7", ".", "0", "0">>)
                          /\ Is(item, "B Rate", <<"5", "2", "9", ".", "4", "7">>)

\* C8: for every record whose "Rate" is the empty string or a text that is
\* not a number, process_json_data (streamlit_app_v1) yields "P Rate" = ""
\* and "B Rate" = "" for that record.
C8_UnparsedRateEmptiesDerived ==
    ProcessedV1
    => \A i \in 1..Len(line_items) :
         LET item == line_items[i]
         IN  (Has(item, "Rate") /\ Get(item, "Rate").t = "str" /\ ~RateParses(item))
             => /\ exc = "none"
                /\ Is(item, "P Rate", <<>>)
                /\ Is(item, "B Rate", <<>>)

\* C9: no exception escapes process_json_data (streamlit_app_v1), whatever
\* "Rate" is (empty, not a number, a JSON number, null, absent): it returns
\* and has processed every record of the list.
C9_NoExceptionEscapes ==
    ProcessedV1
    => /\ exc = "none"
       /\ \A i \in 1..Len(line_items) : Has(line_items[i], "P Rate")

\* position of a key in the record's field order, 0 if the record lacks it
IndexOf(item, key) ==
    IF Has(item, key) THEN CHOOSE i \in 1..Len(item) : item[i].k = key ELSE 0

\* the record without its derived fields
WithoutDerived(item) == SelectSeq(item, LAMBDA e : e.k \notin {"P Rate", "B Rate"})

\* C14: after process_json_data, in every record "P Rate" comes immediately
\* after "Rate" and "B Rate" immediately after "Total", and the original
\* fields keep their relative order and values, also in a record whose Rate
\* failed to parse.
C14_DerivedFieldsAdjacent ==
    Normalized
        => \A i \in 1..Len(line_items) :
              LET item == line_items[i]
                  orig == validate_line_items(raw_items)[i]
              IN  /\ Has(item, "P Rate")
                  /\ IndexOf(item, "P Rate") = IndexOf(item, "Rate") + 1
                  /\ Has(item, "B Rate")
                  /\ IndexOf(item, "B Rate") = IndexOf(item, "Total") + 1
                  /\ WithoutDerived(item) = WithoutDerived(orig)

---------------------------------------------------------------------------
(* Properties of the exporter (CsvSpec) *)

\* the script is over: it ran to its end or an exception ended it
CsvOver == csv_pc = "done"

\* the records the exporter was given
CsvItems == IF data.some /\ data.v.has THEN data.v.items ELSE <<>>

\* C12: exporting an empty record sequence ("LineItems" missing or an empty
\* list) writes no file (the output path is neither created nor truncated),
\* raises nothing, and the run reports a no-data status, not a successful write.
C12_EmptyExportIsReportedNoOp ==
    (CsvOver /\ data.some /\ CsvItems = <<>>)
        => /\ csv_disk = csv_before
           /\ csv_exc = "none"
           /\ "no_items" \in Range(printed)
           /\ "success" \notin Range(printed)

\* C13: for a non-empty sequence of n records the exporter writes one header
\* row, the first record's field names in order, then n data rows, row k
\* holding record k, and does not raise, whatever fields the later records have.
C13_HeaderThenOneRowPerRecord ==
    (CsvOver /\ CsvItems # <<>>)
        => /\ csv_exc = "none"
           /\ csv_disk.some
           /\ LET rows   == csv_disk.v
                  header == KeySeq(CsvItems[1])
              IN  /\ Len(rows) = Len(CsvItems) + 1
                  /\ rows[1] = header
                  /\ \A k \in 1..Len(CsvItems) :
                        /\ Len(rows[k + 1]) = Len(header)
                        /\ \A i \in 1..Len(header) :
                              Has(CsvItems[k], header[i])
                                  => rows[k + 1][i] = CellText(Get(CsvItems[k], header[i]))
                        /\ Keys(CsvItems[k]) \subseteq Range(header)

====
